---- MODULE Spec2Model ----
(***************************************************************************)
(* Model of the trace sanitization and reconciliation engine of            *)
(* src/src/App.jsx: cleanAndSortHistory, the localStorage cache helpers    *)
(* and the loadData cycle of the App component.                            *)
(*                                                                         *)
(* JavaScript values are records [k, v]: k is the kind of the value and v  *)
(* its number when it has one.  Timestamps are counted in units of        *)
(* TsUnit = 30 seconds (an epoch second count s is the model value         *)
(* s / 30), because minYear * 365 * 24 * 3600 does not fit the 32 bit      *)
(* integers of TLC; distances are thousandths of a kilometre.              *)
(***************************************************************************)
EXTENDS Integers, Sequences, FiniteSets, TLC

\* ------------------------------------------------------------------
\* JavaScript values
\* ------------------------------------------------------------------
Num(n) == [k |-> "num", v |-> n]
NaN == [k |-> "nan", v |-> 0]
Null == [k |-> "null", v |-> 0]
Undef == [k |-> "undef", v |-> 0]
\* a string that is no numeric literal, such as "abc" or an ISO date
Str == [k |-> "str", v |-> 0]

\* Number(x)
ToNumber(x) ==
  CASE x.k = "num" -> x
    [] x.k = "null" -> Num(0)
    [] OTHER -> NaN

\* x == null
IsNullish(x) == x.k \in {"null", "undef"}

\* Number.isFinite(x), for x a number
IsFinite(x) == x.k = "num"

\* a ?? b
Coalesce(a, b) == IF IsNullish(a) THEN b ELSE a

\* JSON.parse(JSON.stringify(x)) of a field value: NaN is written as null
JsonValue(x) == IF x.k = "nan" THEN Null ELSE x

\* ------------------------------------------------------------------
\* Units and constants of cleanAndSortHistory
\* ------------------------------------------------------------------
\* seconds per model time unit
TsUnit == 30
minYear == 2009
jumpKmThreshold == 200
\* 24 * 3600 seconds
maxFutureSec == (24 * 3600) \div TsUnit
\* minYear * 365 * 24 * 3600 seconds
MinTs == minYear * 365 * 24 * (3600 \div TsUnit)
\* the 60 seconds of the spike test
SpikeDt == 60 \div TsUnit
\* thousandths of a kilometre per kilometre
KmScale == 1000
\* R * pi / 180 with R = 6371 km: thousandths of a kilometre per degree
MilliKmPerDegree == 111195

Abs(n) == IF n < 0 THEN -n ELSE n

\* earthKm, in thousandths of a kilometre, of two points given in integer
\* degrees.  Every finite longitude of the model is 0, so the two points lie
\* on one meridian, where the haversine formula is R * |lat2 - lat1| * pi / 180.
earthKm(lat1, lon1, lat2, lon2) == MilliKmPerDegree * Abs(lat2 - lat1)

\* ------------------------------------------------------------------
\* Arrays and points
\* ------------------------------------------------------------------
\* An array element is either an object, a record with the fields lat, lon
\* and ts (and timestamp, for a raw remote point), or the value null.
IsObject(p) == "k" \notin DOMAIN p

\* reading a property of a null element throws a TypeError
Throws(arr) == \E i \in 1..Len(arr) : ~IsObject(arr[i])

Reverse(arr) == [i \in 1..Len(arr) |-> arr[Len(arr) + 1 - i]]

\* a < b and a > b of two numbers: false when either is NaN
JsLt(a, b) == a.k = "num" /\ b.k = "num" /\ a.v < b.v
JsGt(a, b) == a.k = "num" /\ b.k = "num" /\ a.v > b.v
\* a - b of two numbers
JsSub(a, b) == IF a.k = "num" /\ b.k = "num" THEN Num(a.v - b.v) ELSE NaN

\* ------------------------------------------------------------------
\* Array.prototype.sort with the comparator (a, b) => a.ts - b.ts
\* ------------------------------------------------------------------
\* line 85 runs the sort of the engine (V8): runs are found, short runs are
\* extended by binary insertion to the minimal run length, and the runs are
\* merged with galloping.  Below 64 elements the minimal run length is the
\* length of the array, so that the whole array is sorted by binary
\* insertion.  With numeric ts the result is the stable ascending order; a
\* NaN ts makes the comparator inconsistent, and the result is what these
\* steps yield.  Indices are counted from 0, as in the engine.

\* The comparator's result as the engine uses it: a NaN result counts as 0.
CompareTs(a, b) ==
  LET d == JsSub(a.ts, b.ts)
  IN  IF d.k = "num" THEN d.v ELSE 0

Min(a, b) == IF a < b THEN a ELSE b

\* arr[i], and arr after arr[i] = v
At(arr, i) == arr[i + 1]
Put(arr, i, v) == [arr EXCEPT ![i + 1] = v]

\* target after the length elements of source from srcPos on are copied to
\* dstPos; the ranges may overlap
Copy(source, srcPos, target, dstPos, length) ==
  SubSeq(target, 1, dstPos)
    \o SubSeq(source, srcPos + 1, srcPos + length)
    \o SubSeq(target, dstPos + length + 1, Len(target))

\* the minimal length of a run, for an array of n elements
RECURSIVE ComputeMinRunLength(_, _)
ComputeMinRunLength(n, r) ==
  IF n >= 64
    THEN ComputeMinRunLength(n \div 2, IF n % 2 = 1 THEN 1 ELSE r)
    ELSE n + r

\* Length of the run that starts at index low of arr[low .. high - 1]: the
\* longest stretch that is strictly descending when the second element is
\* below the first, and non-descending otherwise.
CountRun(arr, low, high) ==
  IF low + 1 = high
    THEN 1
    ELSE LET desc == CompareTs(At(arr, low + 1), At(arr, low)) < 0
             Goes(i) == IF desc THEN CompareTs(At(arr, i), At(arr, i - 1)) < 0
                                ELSE CompareTs(At(arr, i), At(arr, i - 1)) >= 0
         IN  CHOOSE r \in 2..(high - low) :
               /\ \A i \in (low + 2)..(low + r - 1) : Goes(i)
               /\ r = high - low \/ ~Goes(low + r)

\* The array with the run that starts at index low made ascending.
MakeRun(arr, low, high) ==
  LET r == CountRun(arr, low, high)
  IN  IF r >= 2 /\ CompareTs(At(arr, low + 1), At(arr, low)) < 0
        THEN SubSeq(arr, 1, low) \o Reverse(SubSeq(arr, low + 1, low + r))
               \o SubSeq(arr, low + r + 1, Len(arr))
        ELSE arr

\* Binary search of the position of pivot among arr[left .. right - 1].
RECURSIVE BinarySearch(_, _, _, _)
BinarySearch(arr, pivot, left, right) ==
  IF left < right
    THEN LET mid == left + ((right - left) \div 2)
         IN  IF CompareTs(pivot, At(arr, mid)) < 0
               THEN BinarySearch(arr, pivot, left, mid)
               ELSE BinarySearch(arr, pivot, mid + 1, right)
    ELSE left

\* Binary insertion of arr[start .. high - 1], one after the other, into the
\* sorted arr[low .. start - 1]: arr[start] is put at the place the binary
\* search finds, then arr[start + 1], up to arr[high - 1].  The range is
\* halved, and the length of arr is read first so that arr is computed before
\* the next step, which keeps the evaluation shallow.
RECURSIVE BinaryInsertionSort(_, _, _, _)
BinaryInsertionSort(arr, low, start, high) ==
  IF Len(arr) < 2 \/ start >= high
    THEN arr
    ELSE IF start + 1 = high
      THEN LET left == BinarySearch(arr, At(arr, start), low, start)
           IN  SubSeq(arr, 1, left) \o <<At(arr, start)>>
                 \o SubSeq(arr, left + 1, start)
                 \o SubSeq(arr, start + 2, Len(arr))
      ELSE LET mid == start + ((high - start) \div 2)
           IN  BinaryInsertionSort(BinaryInsertionSort(arr, low, start, mid),
                                   low, mid, high)

\* The offsets 1, 3, 7, ... from index from, in the direction step, up to
\* maxOfs: the last offset that did not stop the gallop and the one that
\* did.  mode names the loop: of GallopLeft, upwards and downwards, and of
\* GallopRight, downwards and upwards.
RECURSIVE GallopScan(_, _, _, _, _, _, _, _)
GallopScan(mode, arr, key, from, step, maxOfs, lastOfs, offset) ==
  IF /\ offset < maxOfs
     /\ CASE mode = "leftUp" -> CompareTs(At(arr, from + step * offset), key) < 0
          [] mode = "leftDown" -> CompareTs(At(arr, from + step * offset), key) >= 0
          [] mode = "rightDown" -> CompareTs(key, At(arr, from + step * offset)) < 0
          [] mode = "rightUp" -> CompareTs(key, At(arr, from + step * offset)) >= 0
    THEN GallopScan(mode, arr, key, from, step, maxOfs, offset, 2 * offset + 1)
    ELSE <<lastOfs, offset>>

\* the binary search that ends a gallop
RECURSIVE GallopBisect(_, _, _, _, _, _)
GallopBisect(side, arr, key, base, lastOfs, offset) ==
  IF lastOfs < offset
    THEN LET m == lastOfs + ((offset - lastOfs) \div 2)
             below == IF side = "left"
                        THEN CompareTs(At(arr, base + m), key) < 0
                        ELSE ~(CompareTs(key, At(arr, base + m)) < 0)
         IN  IF below
               THEN GallopBisect(side, arr, key, base, m + 1, offset)
               ELSE GallopBisect(side, arr, key, base, lastOfs, m)
    ELSE offset

\* the position of key in the run arr[base .. base + length - 1], before
\* the elements that compare equal, searched from index hint of the run
GallopLeft(arr, key, base, length, hint) ==
  IF CompareTs(At(arr, base + hint), key) < 0
    THEN LET s == GallopScan("leftUp", arr, key, base + hint, 1, length - hint, 0, 1)
             offset == Min(s[2], length - hint)
         IN  GallopBisect("left", arr, key, base, s[1] + hint + 1, offset + hint)
    ELSE LET s == GallopScan("leftDown", arr, key, base + hint, -1, hint + 1, 0, 1)
             offset == Min(s[2], hint + 1)
         IN  GallopBisect("left", arr, key, base, hint - offset + 1, hint - s[1])

\* the same, after the elements that compare equal
GallopRight(arr, key, base, length, hint) ==
  IF CompareTs(key, At(arr, base + hint)) < 0
    THEN LET s == GallopScan("rightDown", arr, key, base + hint, -1, hint + 1, 0, 1)
             offset == Min(s[2], hint + 1)
         IN  GallopBisect("right", arr, key, base, hint - offset + 1, hint - s[1])
    ELSE LET s == GallopScan("rightUp", arr, key, base + hint, 1, length - hint, 0, 1)
             offset == Min(s[2], length - hint)
         IN  GallopBisect("right", arr, key, base, s[1] + hint + 1, offset + hint)

\* wins in a row at which a merge goes on galloping
kMinGallopWins == 7

\* A merge in progress: the array a, the copy t of the shorter run, the
\* cursors dest, ct (in t) and c (in a), the lengths lA and lB left of the
\* two runs, the threshold mg, the wins in a row wa and wb, and base, the
\* start of run A.  mode tells the loop the merge is in: "one" takes one
\* element at a time, "gallop" takes stretches, "done" is the merge ended.
MergeStart(arr, mg, baseA, lengthA, lengthB, temp, dest, ct, c) ==
  [a |-> arr, t |-> temp, dest |-> dest, ct |-> ct, c |-> c, base |-> baseA,
   lA |-> lengthA, lB |-> lengthB, mg |-> mg, wa |-> 0, wb |-> 0,
   mode |-> "one"]

\* a run has won mg times in a row: the merge goes on galloping
StartGallop(m) == [m EXCEPT !.mg = @ + 1, !.mode = "gallop"]
\* after a round of galloping: on while a run wins kMinGallopWins times or
\* more, else back to one element at a time with a raised threshold
AfterGallop(m) ==
  IF m.wa >= kMinGallopWins \/ m.wb >= kMinGallopWins
    THEN m
    ELSE [m EXCEPT !.mg = @ + 1, !.mode = "one", !.wa = 0, !.wb = 0]

\* the ends of MergeLow: the rest of t is copied; the rest of run B is moved
\* and the last element of t put behind it
LowSucceed(m) ==
  [m EXCEPT !.a = IF m.lA > 0 THEN Copy(m.t, m.ct, m.a, m.dest, m.lA) ELSE m.a,
            !.mode = "done"]
LowCopyB(m) ==
  [m EXCEPT !.a = Put(Copy(m.a, m.c, m.a, m.dest, m.lB), m.dest + m.lB,
                      At(m.t, m.ct)),
            !.mode = "done"]

\* MergeLow takes the next element of run B, or of t
LowTakeB(m) ==
  [m EXCEPT !.a = Put(m.a, m.dest, At(m.a, m.c)),
            !.dest = @ + 1, !.c = @ + 1, !.lB = @ - 1]
LowTakeTemp(m) ==
  [m EXCEPT !.a = Put(m.a, m.dest, At(m.t, m.ct)),
            !.dest = @ + 1, !.ct = @ + 1, !.lA = @ - 1]
\* MergeLow takes the next n elements of t, or of run B, found by a gallop
LowTakeTempRun(m, n) ==
  [m EXCEPT !.a = Copy(m.t, m.ct, m.a, m.dest, n),
            !.dest = @ + n, !.ct = @ + n, !.lA = @ - n, !.wa = n]
LowTakeBRun(m, n) ==
  [m EXCEPT !.a = Copy(m.a, m.c, m.a, m.dest, n),
            !.dest = @ + n, !.c = @ + n, !.lB = @ - n, !.wb = n]

\* MergeLow, one element at a time: after an element of run B, and of t
LowWonB(m) ==
  IF m.lB = 0 THEN LowSucceed(m)
  ELSE IF m.wb >= m.mg THEN StartGallop(m)
  ELSE m
LowWonA(m) ==
  IF m.lA = 1 THEN LowCopyB(m)
  ELSE IF m.wa >= m.mg THEN StartGallop(m)
  ELSE m

\* MergeLow, one round of the loop that takes one element at a time
MergeLowOne(m) ==
  IF CompareTs(At(m.a, m.c), At(m.t, m.ct)) < 0
    THEN LowWonB([LowTakeB(m) EXCEPT !.wb = m.wb + 1, !.wa = 0])
    ELSE LowWonA([LowTakeTemp(m) EXCEPT !.wa = m.wa + 1, !.wb = 0])

\* MergeLow, a round of the galloping loop, from its end to its start: the
\* element of t after the stretch of run B
LowGallopEnd(m) == IF m.lA = 1 THEN LowCopyB(m) ELSE AfterGallop(m)
\* the stretch of wb elements of run B that go before the next element of t
LowGallopB(m, wb) ==
  IF wb > 0 /\ m.lB = wb
    THEN LowSucceed(LowTakeBRun(m, wb))
    ELSE LowGallopEnd(LowTakeTemp(IF wb > 0 THEN LowTakeBRun(m, wb)
                                            ELSE [m EXCEPT !.wb = 0]))
\* the element of run B after the stretch of t
LowGallopMid(m) ==
  IF m.lB = 0
    THEN LowSucceed(m)
    ELSE LowGallopB(m, GallopLeft(m.a, At(m.t, m.ct), m.c, m.lB, 0))
\* the stretch of wa elements of t that go before the next element of run B
LowGallopA(m, wa) ==
  IF wa > 0 /\ m.lA = wa + 1 THEN LowCopyB(LowTakeTempRun(m, wa))
  ELSE IF wa > 0 /\ m.lA = wa THEN LowSucceed(LowTakeTempRun(m, wa))
  ELSE LowGallopMid(LowTakeB(IF wa > 0 THEN LowTakeTempRun(m, wa)
                                       ELSE [m EXCEPT !.wa = 0]))
\* MergeLow, one round of the galloping loop, for a merge whose threshold
\* is lowered already
MergeLowGallop(m) ==
  LowGallopA(m, GallopRight(m.t, At(m.a, m.c), m.ct, m.lA, 0))

\* MergeLow, rounds more of its loops, in order; a round of galloping starts
\* by lowering the threshold, to 1 at least.  (Every round moves an element
\* or more; the count is halved to keep the evaluation shallow.)
RECURSIVE MergeLowLoop(_, _)
MergeLowLoop(m, rounds) ==
  IF rounds <= 0 \/ m.mode = "done"
    THEN m
    ELSE IF rounds = 1
      THEN IF m.mode = "one"
             THEN MergeLowOne(m)
             ELSE MergeLowGallop([m EXCEPT !.mg = IF @ > 1 THEN @ - 1 ELSE 1])
      ELSE MergeLowLoop(MergeLowLoop(m, rounds \div 2), rounds - (rounds \div 2))

\* The merge of the adjacent runs A and B, lengthA <= lengthB, from the
\* left, starting with the first element of run B.  The merge at its end
\* holds the array in a and the threshold in mg.
MergeLow(arr, mg, baseA, lengthA, baseB, lengthB) ==
  LET m == LowTakeB(MergeStart(arr, mg, baseA, lengthA, lengthB,
                               SubSeq(arr, baseA + 1, baseA + lengthA),
                               baseA, 0, baseB))
  IN  IF m.lB = 0 THEN LowSucceed(m)
      ELSE IF m.lA = 1 THEN LowCopyB(m)
      ELSE MergeLowLoop(m, lengthA + lengthB)

\* the ends of MergeHigh
HighSucceed(m) ==
  [m EXCEPT !.a = IF m.lB > 0
                    THEN Copy(m.t, 0, m.a, m.dest - (m.lB - 1), m.lB)
                    ELSE m.a,
            !.mode = "done"]
HighCopyA(m) ==
  [m EXCEPT !.a = Put(Copy(m.a, m.c - m.lA + 1, m.a, m.dest - m.lA + 1, m.lA),
                      m.dest - m.lA, At(m.t, m.ct)),
            !.mode = "done"]

\* MergeHigh takes the next element of run A, or of t
HighTakeA(m) ==
  [m EXCEPT !.a = Put(m.a, m.dest, At(m.a, m.c)),
            !.dest = @ - 1, !.c = @ - 1, !.lA = @ - 1]
HighTakeTemp(m) ==
  [m EXCEPT !.a = Put(m.a, m.dest, At(m.t, m.ct)),
            !.dest = @ - 1, !.ct = @ - 1, !.lB = @ - 1]
\* MergeHigh takes the next n elements of run A, or of t, found by a gallop
HighTakeARun(m, n) ==
  [m EXCEPT !.a = Copy(m.a, m.c - n + 1, m.a, m.dest - n + 1, n),
            !.dest = @ - n, !.c = @ - n, !.lA = @ - n, !.wa = n]
HighTakeTempRun(m, n) ==
  [m EXCEPT !.a = Copy(m.t, m.ct - n + 1, m.a, m.dest - n + 1, n),
            !.dest = @ - n, !.ct = @ - n, !.lB = @ - n, !.wb = n]

\* MergeHigh, one element at a time: after an element of run A, and of t
HighWonA(m) ==
  IF m.lA = 0 THEN HighSucceed(m)
  ELSE IF m.wa >= m.mg THEN StartGallop(m)
  ELSE m
HighWonB(m) ==
  IF m.lB = 1 THEN HighCopyA(m)
  ELSE IF m.wb >= m.mg THEN StartGallop(m)
  ELSE m

\* MergeHigh, one round of the loop that takes one element at a time
MergeHighOne(m) ==
  IF CompareTs(At(m.t, m.ct), At(m.a, m.c)) < 0
    THEN HighWonA([HighTakeA(m) EXCEPT !.wa = m.wa + 1, !.wb = 0])
    ELSE HighWonB([HighTakeTemp(m) EXCEPT !.wb = m.wb + 1, !.wa = 0])

\* MergeHigh, a round of the galloping loop, from its end to its start: the
\* element of run A after the stretch of t
HighGallopEnd(m) == IF m.lA = 0 THEN HighSucceed(m) ELSE AfterGallop(m)
\* the stretch of wb elements of t that go behind the next element of run A
HighGallopB(m, wb) ==
  IF wb > 0 /\ m.lB = wb + 1 THEN HighCopyA(HighTakeTempRun(m, wb))
  ELSE IF wb > 0 /\ m.lB = wb THEN HighSucceed(HighTakeTempRun(m, wb))
  ELSE HighGallopEnd(HighTakeA(IF wb > 0 THEN HighTakeTempRun(m, wb)
                                         ELSE [m EXCEPT !.wb = 0]))
\* the element of t after the stretch of run A
HighGallopMid(m) ==
  IF m.lB = 1
    THEN HighCopyA(m)
    ELSE HighGallopB(m, m.lB - GallopLeft(m.t, At(m.a, m.c), 0, m.lB, m.lB - 1))
\* the stretch of wa elements of run A that go behind the next element of t
HighGallopA(m, wa) ==
  IF wa > 0 /\ m.lA = wa
    THEN HighSucceed(HighTakeARun(m, wa))
    ELSE HighGallopMid(HighTakeTemp(IF wa > 0 THEN HighTakeARun(m, wa)
                                              ELSE [m EXCEPT !.wa = 0]))
\* MergeHigh, one round of the galloping loop, for a merge whose threshold
\* is lowered already
MergeHighGallop(m) ==
  HighGallopA(m, m.lA - GallopRight(m.a, At(m.t, m.ct), m.base, m.lA, m.lA - 1))

\* MergeHigh, rounds more of its loops, in order
RECURSIVE MergeHighLoop(_, _)
MergeHighLoop(m, rounds) ==
  IF rounds <= 0 \/ m.mode = "done"
    THEN m
    ELSE IF rounds = 1
      THEN IF m.mode = "one"
             THEN MergeHighOne(m)
             ELSE MergeHighGallop([m EXCEPT !.mg = IF @ > 1 THEN @ - 1 ELSE 1])
      ELSE MergeHighLoop(MergeHighLoop(m, rounds \div 2), rounds - (rounds \div 2))

\* The merge of the adjacent runs A and B, lengthA > lengthB, from the
\* right, starting with the last element of run A.
MergeHigh(arr, mg, baseA, lengthA, baseB, lengthB) ==
  LET m == HighTakeA(MergeStart(arr, mg, baseA, lengthA, lengthB,
                                SubSeq(arr, baseB + 1, baseB + lengthB),
                                baseB + lengthB - 1, lengthB - 1,
                                baseA + lengthA - 1))
  IN  IF m.lA = 0 THEN HighSucceed(m)
      ELSE IF m.lB = 1 THEN HighCopyA(m)
      ELSE MergeHighLoop(m, lengthA + lengthB)

\* The state of a sort: the array a, the pending runs (base and length of
\* each, in order) and the galloping threshold mg.
\* the state after the runs i and i + 1 (from 0) are merged into one, with
\* the array and the threshold of merged
Joined(st, i, merged) ==
  [a |-> merged.a,
   runs |-> SubSeq(st.runs, 1, i)
              \o <<[base |-> st.runs[i + 1].base,
                    length |-> st.runs[i + 1].length + st.runs[i + 2].length]>>
              \o SubSeq(st.runs, i + 3, Len(st.runs)),
   mg |-> merged.mg]

\* the merge of the last lengthA elements of run A with the first lengthB
\* of run B: the others are in place
MergeTrimmed(st, runA, runB, lengthA, lengthB) ==
  IF lengthB = 0
    THEN st
    ELSE IF lengthA <= lengthB
      THEN MergeLow(st.a, st.mg, runA.base + runA.length - lengthA, lengthA,
                    runB.base, lengthB)
      ELSE MergeHigh(st.a, st.mg, runA.base + runA.length - lengthA, lengthA,
                     runB.base, lengthB)

\* the first k elements of run A are in place; so are the elements of run B
\* from the position of the last element of run A on
MergeFrom(st, runA, runB, k) ==
  IF k = runA.length
    THEN st
    ELSE MergeTrimmed(st, runA, runB, runA.length - k,
                      GallopLeft(st.a, At(st.a, runA.base + runA.length - 1),
                                 runB.base, runB.length, runB.length - 1))

\* the runs i and i + 1 (from 0) are merged
MergeAt(st, i) ==
  Joined(st, i,
         MergeFrom(st, st.runs[i + 1], st.runs[i + 2],
                   GallopRight(st.a, At(st.a, st.runs[i + 2].base),
                               st.runs[i + 1].base, st.runs[i + 1].length, 0)))

\* the run n (from 0) is shorter than the run two before it left over the
\* one before it
RunInvariantEstablished(runs, n) ==
  n < 2 \/ runs[n - 1].length > runs[n].length + runs[n + 1].length

\* pending runs are merged until their lengths decrease fast enough
RECURSIVE MergeCollapse(_)
MergeCollapse(st) ==
  IF Len(st.runs) <= 1
    THEN st
    ELSE LET n == Len(st.runs) - 2
         IN  IF \/ ~RunInvariantEstablished(st.runs, n + 1)
                \/ ~RunInvariantEstablished(st.runs, n)
               THEN MergeCollapse(
                      MergeAt(st, IF st.runs[n].length < st.runs[n + 2].length
                                    THEN n - 1 ELSE n))
               ELSE IF st.runs[n + 1].length <= st.runs[n + 2].length
                 THEN MergeCollapse(MergeAt(st, n))
                 ELSE st

\* all pending runs are merged
RECURSIVE MergeForceCollapse(_)
MergeForceCollapse(st) ==
  IF Len(st.runs) <= 1
    THEN st
    ELSE LET n == Len(st.runs) - 2
         IN  MergeForceCollapse(
               MergeAt(st, IF n > 0 /\ st.runs[n].length < st.runs[n + 2].length
                             THEN n - 1 ELSE n))

\* The loop of the sort over arr[low .. low + remaining - 1]: the run found
\* at index low is made ascending, extended by binary insertion when it is
\* shorter than minRunLength, and pushed on the pending runs.
RECURSIVE ArrayTimSortLoop(_, _, _, _)
ArrayTimSortLoop(st, low, remaining, minRunLength) ==
  IF remaining = 0
    THEN MergeForceCollapse(st)
    ELSE LET found == CountRun(st.a, low, low + remaining)
             length == IF found < minRunLength
                         THEN Min(minRunLength, remaining) ELSE found
             run == MakeRun(st.a, low, low + remaining)
         IN  ArrayTimSortLoop(
               MergeCollapse(
                 [a |-> IF found < minRunLength
                          THEN BinaryInsertionSort(run, low, low + found, low + length)
                          ELSE run,
                  runs |-> Append(st.runs, [base |-> low, length |-> length]),
                  mg |-> st.mg]),
               low + length, remaining - length, minRunLength)

\* withValidTs.sort((a, b) => a.ts - b.ts)
SortByTs(arr) ==
  IF Len(arr) < 2
    THEN arr
    ELSE ArrayTimSortLoop([a |-> arr, runs |-> <<>>, mg |-> kMinGallopWins],
                          0, Len(arr), ComputeMinRunLength(Len(arr), 0)).a

\* ------------------------------------------------------------------
\* cleanAndSortHistory
\* ------------------------------------------------------------------
\* lines 70-75: the coercion of one element
CoercePoint(p) ==
  [lat |-> ToNumber(p.lat),
   lon |-> ToNumber(p.lon),
   ts |-> IF IsNullish(p.ts) THEN Null ELSE ToNumber(p.ts)]

\* lines 70-75: history.map
CoerceAll(history) == [i \in 1..Len(history) |-> CoercePoint(history[i])]

\* line 76 with the test of lon left out
FiniteLat(p) == IsFinite(p.lat)

\* line 76
FiniteCoords(p) == IsFinite(p.lat) /\ IsFinite(p.lon)

\* lines 78-83: the timestamp filter, at the clock value nowSec
ValidTs(p, nowSec) ==
  /\ ~IsNullish(p.ts)
  /\ ~JsLt(p.ts, Num(MinTs))
  /\ ~JsGt(p.ts, Num(nowSec + maxFutureSec))

\* line 108 with a window of 30 seconds in place of 60
IsSpikeHalfMinute(prev, p) ==
  /\ earthKm(prev.lat.v, prev.lon.v, p.lat.v, p.lon.v) > jumpKmThreshold * KmScale
  /\ JsLt(JsSub(p.ts, prev.ts), Num(SpikeDt - 1))

\* line 108: the spike test of candidate p against the last accepted point
IsSpike(prev, p) ==
  /\ earthKm(prev.lat.v, prev.lon.v, p.lat.v, p.lon.v) > jumpKmThreshold * KmScale
  /\ JsLt(JsSub(p.ts, prev.ts), Num(SpikeDt))

\* lines 100-114 with prev taken from the sorted input, withValidTs[i - 1],
\* in place of the last accepted point
RECURSIVE DespikePrevInput(_, _, _)
DespikePrevInput(sorted, i, cleaned) ==
  IF i > Len(sorted)
    THEN cleaned
    ELSE IF Len(cleaned) = 0
      THEN DespikePrevInput(sorted, i + 1, Append(cleaned, sorted[i]))
      ELSE IF IsSpike(sorted[i - 1], sorted[i])
        THEN DespikePrevInput(sorted, i + 1, cleaned)
        ELSE DespikePrevInput(sorted, i + 1, Append(cleaned, sorted[i]))

\* lines 100-114 with prev taken as the first accepted point, cleaned[0],
\* in place of the last accepted point
RECURSIVE DespikeFromFirst(_, _, _)
DespikeFromFirst(sorted, i, cleaned) ==
  IF i > Len(sorted)
    THEN cleaned
    ELSE IF Len(cleaned) = 0
      THEN DespikeFromFirst(sorted, i + 1, Append(cleaned, sorted[i]))
      ELSE IF IsSpike(cleaned[1], sorted[i])
        THEN DespikeFromFirst(sorted, i + 1, cleaned)
        ELSE DespikeFromFirst(sorted, i + 1, Append(cleaned, sorted[i]))

\* lines 100-114: the walk over the sorted points from index i on
RECURSIVE Despike(_, _, _)
Despike(sorted, i, cleaned) ==
  IF i > Len(sorted)
    THEN cleaned
    ELSE IF Len(cleaned) = 0
      THEN Despike(sorted, i + 1, Append(cleaned, sorted[i]))
      ELSE IF IsSpike(cleaned[Len(cleaned)], sorted[i])
        THEN Despike(sorted, i + 1, cleaned)
        ELSE Despike(sorted, i + 1, Append(cleaned, sorted[i]))

\* cleanAndSortHistory(history) of an array without null elements, run when
\* Math.floor(Date.now() / 1000) is nowSec
cleanAndSortHistory(history, nowSec) ==
  LET normalized == SelectSeq(CoerceAll(history), FiniteCoords)
      withValidTs == SelectSeq(normalized, LAMBDA p : ValidTs(p, nowSec))
  IN  Despike(SortByTs(withValidTs), 1, <<>>)

\* ------------------------------------------------------------------
\* localStorage helpers
\* ------------------------------------------------------------------
\* Which calls of window.localStorage throw: "none"; "setItem", when the
\* quota is exceeded; "all", when the access to the storage is denied.  The
\* helpers catch the exception (lines 41-43, 54-57 and 394-396).
VARIABLE lsFault

\* line 34 with the device identifier left out of the key
localHistoryKeyNoDevice(deviceId) == "track_history_"

\* `track_history_${deviceId}`
localHistoryKey(deviceId) == "track_history_" \o deviceId

\* JSON.parse(JSON.stringify(p)) of a point
JsonPoint(p) ==
  [lat |-> JsonValue(p.lat), lon |-> JsonValue(p.lon), ts |-> JsonValue(p.ts)]

\* the item no key holds
Absent == [kind |-> "absent", items |-> <<>>]

\* localStorage.getItem(key): a key that was never set holds no item
GetItem(store, key) == IF key \in DOMAIN store THEN store[key] ELSE Absent

\* the item JSON.stringify(arr) parses back to
StoredArray(arr) == [kind |-> "array", items |-> [i \in 1..Len(arr) |-> JsonPoint(arr[i])]]

\* saveLocalHistory(deviceId, arr): the storage afterwards; nothing is
\* written when setItem throws
saveLocalHistory(store, dev, arr) ==
  IF dev = "" \/ lsFault # "none"
    THEN store
    ELSE [store EXCEPT ![localHistoryKey(dev)] = StoredArray(arr)]

\* loadLocalHistory(deviceId): the array it returns, [] when getItem or
\* JSON.parse throws or the parsed value is no array
loadLocalHistory(store, dev) ==
  IF dev = "" \/ lsFault = "all"
    THEN <<>>
    ELSE LET raw == GetItem(store, localHistoryKey(dev))
         IN  IF raw.kind = "array" THEN raw.items ELSE <<>>

\* ------------------------------------------------------------------
\* Inputs of the model
\* ------------------------------------------------------------------
\* device identifiers the user can type
Devices == {"esp01", "esp02"}
\* what the user can type: a device identifier or a blank
DeviceInputs == Devices \cup {" "}

\* deviceId.trim()
Trim(dev) == IF dev = " " THEN "" ELSE dev

\* the oldest timestamp the filter keeps
T0 == MinTs

\* Values of Math.floor(Date.now() / 1000): a clock of today (56 years of
\* 365 days after 1970), when MinTs lies far ahead, and the first clock at
\* which the filter keeps T0 + 1
Now2026 == 56 * 365 * 24 * (3600 \div TsUnit)
NowLate == T0 + 1 - maxFutureSec
Clocks == {Now2026, NowLate}

RawPoint(lat, lon, ts, timestamp) ==
  [lat |-> lat, lon |-> lon, ts |-> ts, timestamp |-> timestamp]

\* raw points a remote history holds
rOrigin == RawPoint(Num(0), Num(0), Num(T0), Undef)
rNear == RawPoint(Num(1), Num(0), Undef, Num(T0 + 1))
rFar == RawPoint(Num(2), Num(0), Num(T0 + 1), Undef)
rIsoTs == RawPoint(Num(3), Num(0), Str, Undef)
rNoLat == RawPoint(Null, Num(0), Num(T0), Undef)

Array(items) == [isArray |-> TRUE, items |-> items]
NotArray == [isArray |-> FALSE, items |-> <<>>]

\* what fetchHistory resolves to
HistoryResults ==
  {Array(<<>>), NotArray, Array(<<rNoLat, rOrigin, rFar>>), Array(<<rNear, rOrigin>>),
   Array(<<rIsoTs>>), Array(<<rOrigin, Null>>)}

rawFix ==
  [device_id |-> Undef, lat |-> Num(1), lon |-> Num(0), speed |-> Null,
   battery |-> Num(80), sos |-> Undef, timestamp |-> Undef]

\* what fetchLatestLocation resolves to
LatestResults == {Null, rawFix}

\* err.message of a rejected fetch
FetchErrors == {"Network Error"}
\* err.message of the TypeError a null array element raises, at p.lat of
\* line 279 or of line 72
TypeErrorMessage == "Cannot read properties of null (reading 'lat')"

\* items found in localStorage when the page opens
cOrigin == [lat |-> Num(0), lon |-> Num(0), ts |-> Num(T0)]
cNullLat == [lat |-> Null, lon |-> Num(0), ts |-> Num(T0 + 1)]
cNoLon == [lat |-> Num(2), lon |-> Undef, ts |-> Num(T0)]
StartItems ==
  {Absent, StoredArray(<<cOrigin>>), StoredArray(<<cNullLat, cNoLon>>),
   [kind |-> "array", items |-> <<Null>>]}

\* ------------------------------------------------------------------
\* Bounds
\* ------------------------------------------------------------------
\* loadData invocations in flight at one time
MaxCycles == 2
\* length of the arrays cleanAndSortHistory is applied to on its own
MaxLen == 3

\* ------------------------------------------------------------------
\* State
\* ------------------------------------------------------------------
\* The auto-refresh switch stays at its initial value true, so the interval
\* of lines 418-425 runs for as long as the component is mounted.
VARIABLES
  deviceId,        \* useState('esp01')
  latestLocation,  \* useState(null): Null or a LatestReport
  history,         \* useState([]): the trace
  loading,         \* useState(false)
  error,           \* useState(null): <<>> for null, else the message's parts
  phase,           \* "init" before the mount effect, "mounted", "unmounted"
  localStorage,    \* key -> item
  cycles,          \* the loadData invocations in flight, in start order
  now,             \* the last value read from the clock
  ran,             \* the last handler that ran
  sanIn, sanOut, sanTwice, sanPc,  \* cleanAndSortHistory applied to an input
  statPc, statSpeed, statDuration  \* the statistics of one render

appVars == <<deviceId, latestLocation, history, loading, error, phase,
             localStorage, cycles, ran>>
sanVars == <<sanIn, sanOut, sanTwice, sanPc>>
statVars == <<statPc, statSpeed, statDuration>>
vars == <<appVars, now, lsFault, sanVars, statVars>>

\* mountedRef.current
mountedRef == phase # "unmounted"

Keys == {localHistoryKey(d) : d \in Devices}

\* The last handler that ran: its name ("loadData", "publish" and "abort" for
\* the two ways a cycle completes, "clear", and "other" for the rest), the
\* fetches it issued and whether it read or wrote localStorage; for the
\* completion of a cycle also the deviceId of the cycle, whether a cycle
\* started after it had completed before, what its fetches resolved to, the
\* message of the exception and the position the cycle had among the cycles
\* in flight (1 for the one started first).
Handler(op, fetches, lsRead, lsWrite) ==
  [op |-> op, fetches |-> fetches, lsRead |-> lsRead, lsWrite |-> lsWrite,
   dev |-> "", stale |-> FALSE, latest |-> Null, hist |-> NotArray, message |-> "",
   pos |-> 0]

Completion(op, c, latest, hist, message, lsRead, lsWrite) ==
  [op |-> op, fetches |-> 0, lsRead |-> lsRead, lsWrite |-> lsWrite,
   dev |-> cycles[c].dev, stale |-> cycles[c].stale, latest |-> latest, hist |-> hist,
   message |-> message, pos |-> c]

\* A cycle in flight: the deviceId of its closure, the state of its two
\* fetches and whether a cycle started after it has already completed.
NewCycle(dev) ==
  [dev |-> dev, latest |-> "pending", hist |-> "pending", stale |-> FALSE]

\* cycles once cycle c has run its completion
Retire(c) ==
  LET marked == [i \in 1..Len(cycles) |->
                   IF i < c THEN [cycles[i] EXCEPT !.stale = TRUE] ELSE cycles[i]]
  IN  SubSeq(marked, 1, c - 1) \o SubSeq(marked, c + 1, Len(marked))

AppStart(store) ==
  /\ deviceId = "esp01"
  /\ latestLocation = Null
  /\ history = <<>>
  /\ loading = FALSE
  /\ error = <<>>
  /\ phase = "init"
  /\ localStorage = store
  /\ cycles = <<>>
  /\ ran = Handler("other", 0, FALSE, FALSE)

SanIdle ==
  /\ sanIn = <<>>
  /\ sanOut = <<>>
  /\ sanTwice = <<>>
  /\ sanPc = "idle"

\* localStorage when the page opens: what an earlier session left for esp01
StartStores ==
  {[k \in Keys |-> IF k = localHistoryKey("esp01") THEN item ELSE Absent] :
     item \in StartItems}

\* no statistics are followed
StatIdle ==
  /\ statPc = "idle"
  /\ statSpeed = Null
  /\ statDuration = Null

Init ==
  /\ \E store \in StartStores : AppStart(store)
  /\ now \in Clocks
  /\ lsFault = "none"
  /\ SanIdle
  /\ StatIdle

\* ------------------------------------------------------------------
\* loadData
\* ------------------------------------------------------------------
\* lines 245-259 with the test !deviceId in place of !deviceId.trim()
LoadDataStartNoTrim ==
  IF deviceId = ""
    THEN /\ error' = <<"Please enter a device ID">>
         /\ ran' = Handler("loadData", 0, FALSE, FALSE)
         /\ UNCHANGED <<latestLocation, history, loading, localStorage, cycles>>
    ELSE /\ Len(cycles) < MaxCycles
         /\ latestLocation' = Null
         /\ history' = <<>>
         /\ error' = <<>>
         /\ loading' = TRUE
         /\ cycles' = Append(cycles, NewCycle(deviceId))
         /\ ran' = Handler("loadData", 2, FALSE, FALSE)
         /\ UNCHANGED localStorage

\* lines 245-259: the synchronous part of loadData, up to the await.
\* Both fetches are issued here, by the arguments of Promise.all.
LoadDataStart ==
  IF Trim(deviceId) = ""
    THEN /\ error' = <<"Please enter a device ID">>
         /\ ran' = Handler("loadData", 0, FALSE, FALSE)
         /\ UNCHANGED <<latestLocation, history, loading, localStorage, cycles>>
    ELSE /\ Len(cycles) < MaxCycles
         /\ latestLocation' = Null
         /\ history' = <<>>
         /\ error' = <<>>
         /\ loading' = TRUE
         /\ cycles' = Append(cycles, NewCycle(deviceId))
         /\ ran' = Handler("loadData", 2, FALSE, FALSE)
         /\ UNCHANGED localStorage

\* lines 408-410: the mount effect
Mount ==
  /\ phase = "init"
  /\ phase' = "mounted"
  /\ LoadDataStart
  /\ UNCHANGED <<deviceId, now, lsFault, sanVars, statVars>>

\* loadData called by the interval (lines 418-425), by Ctrl/Cmd + R
\* (lines 327-331) or by a refresh button (lines 750-751, 792)
LoadData(trigger) ==
  /\ phase = "mounted"
  /\ trigger = "button" => ~loading
  /\ LoadDataStart
  /\ UNCHANGED <<deviceId, phase, now, lsFault, sanVars, statVars>>

\* lines 256-271 as a pipeline: the fix is applied as soon as
\* fetchLatestLocation resolves, before fetchHistory has completed
FetchResolvesPipeline(c, which) ==
  /\ cycles[c].latest = "pending"
  /\ cycles[c].hist = "pending"
  /\ cycles' = [cycles EXCEPT ![c][which] = "ok"]
  /\ latestLocation' = IF which = "latest"
                          THEN [device_id |-> cycles[c].dev, lat |-> Num(1),
                                lon |-> Num(0), speed |-> Null,
                                battery |-> Num(80), sos |-> FALSE,
                                timestamp |-> Num(now)]
                          ELSE latestLocation
  /\ ran' = Handler("other", 0, FALSE, FALSE)
  /\ UNCHANGED <<deviceId, history, loading, error, phase,
                 localStorage, now, lsFault, sanVars, statVars>>

\* The first of the two fetches of cycle c resolves: Promise.all goes on
\* waiting for the other one.
FetchResolves(c, which) ==
  /\ cycles[c].latest = "pending"
  /\ cycles[c].hist = "pending"
  /\ cycles' = [cycles EXCEPT ![c][which] = "ok"]
  /\ ran' = Handler("other", 0, FALSE, FALSE)
  /\ UNCHANGED <<deviceId, latestLocation, history, loading, error, phase,
                 localStorage, now, lsFault, sanVars, statVars>>

\* !!x
Truthy(x) ==
  CASE x.k = "num" -> x.v # 0
    [] x.k = "bool" -> x.v = 1
    [] x.k = "str" -> TRUE
    [] OTHER -> FALSE

\* lines 262-270; a device_id that is present is a string value whose
\* field s holds its characters
NormalizeLatest(latest, dev, nowSec) ==
  [device_id |-> IF IsNullish(latest.device_id) THEN dev ELSE latest.device_id.s,
   lat |-> ToNumber(latest.lat),
   lon |-> ToNumber(latest.lon),
   speed |-> IF IsNullish(latest.speed) THEN Null ELSE ToNumber(latest.speed),
   battery |-> IF IsNullish(latest.battery) THEN Null ELSE ToNumber(latest.battery),
   sos |-> Truthy(latest.sos),
   timestamp |-> Coalesce(latest.timestamp, Num(nowSec))]

\* lines 278-282
NormalizeRemote(p) ==
  [lat |-> IF ~IsNullish(p.lat) THEN ToNumber(p.lat) ELSE NaN,
   lon |-> IF ~IsNullish(p.lon) THEN ToNumber(p.lon) ELSE NaN,
   ts |-> Coalesce(Coalesce(p.ts, p.timestamp), Null)]

\* lines 278-282: historyData.map
NormalizeAll(items) == [i \in 1..Len(items) |-> NormalizeRemote(items[i])]

\* line 277
UsesRemote(historyData) == historyData.isArray /\ Len(historyData.items) > 0

\* lines 283-284: loadLocalHistory is called in the else branch only
ReadsCache(historyData) == ~UsesRemote(historyData)

\* lines 276-290 without the else branch: the cache is never the pool
CandidatePoolRemoteOnly(historyData, store, dev) ==
  NormalizeAll(historyData.items)

\* lines 276-290: the candidate pool (of arrays without null elements)
CandidatePool(historyData, store, dev) ==
  IF UsesRemote(historyData)
    THEN NormalizeAll(historyData.items)
    ELSE loadLocalHistory(store, dev)

\* lines 276-292 with JSON.parse outside the try block of loadLocalHistory:
\* an item that does not parse throws too
PoolThrowsOnCorrupt(historyData, store, dev) ==
  IF UsesRemote(historyData)
    THEN Throws(historyData.items)
    ELSE \/ Throws(loadLocalHistory(store, dev))
         \/ store[localHistoryKey(dev)].kind = "corrupt"

\* lines 278 and 72: a null element of the array that is mapped throws
PoolThrows(historyData, store, dev) ==
  IF UsesRemote(historyData)
    THEN Throws(historyData.items)
    ELSE Throws(loadLocalHistory(store, dev))

\* lines 297-305
LastNormalized(last, dev) ==
  [device_id |-> dev, lat |-> last.lat, lon |-> last.lon, speed |-> Null,
   battery |-> Null, sos |-> FALSE, timestamp |-> last.ts]

\* lines 261-307 with the synthesized report set whenever the trace is not
\* empty, also over a fix the remote source supplied
LatestAfterTraceFirst(latest, cleaned, dev, nowSec) ==
  IF Len(cleaned) > 0
    THEN LastNormalized(cleaned[Len(cleaned)], dev)
    ELSE IF IsObject(latest)
      THEN NormalizeLatest(latest, dev, nowSec)
      ELSE Null

\* lines 261-274 and 295-307: latestLocation after a cycle that did not throw
LatestAfter(latest, cleaned, dev, nowSec) ==
  IF IsObject(latest)
    THEN NormalizeLatest(latest, dev, nowSec)
    ELSE IF Len(cleaned) > 0
      THEN LastNormalized(cleaned[Len(cleaned)], dev)
      ELSE Null

\* lines 310-317 with the message of the exception left out of the error
CatchNoMessage(c, latest, hist, message, lsRead) ==
  /\ cycles' = Retire(c)
  /\ error' = <<"Failed to load data">>
  /\ latestLocation' = Null
  /\ history' = <<>>
  /\ loading' = IF mountedRef THEN FALSE ELSE loading
  /\ ran' = Completion("abort", c, latest, hist, message, lsRead, FALSE)
  /\ UNCHANGED localStorage

\* lines 310-314 without the finally block: setLoading(false) only at the end
\* of the try block, so that a cycle that fails leaves loading as it is
CatchWithoutFinally(c, latest, hist, message, lsRead) ==
  /\ cycles' = Retire(c)
  /\ error' = <<"Failed to load data: ", message>>
  /\ latestLocation' = Null
  /\ history' = <<>>
  /\ loading' = loading
  /\ ran' = Completion("abort", c, latest, hist, message, lsRead, FALSE)
  /\ UNCHANGED localStorage

\* lines 310-317: the catch block and the finally block
Catch(c, latest, hist, message, lsRead) ==
  /\ cycles' = Retire(c)
  /\ error' = <<"Failed to load data: ", message>>
  /\ latestLocation' = Null
  /\ history' = <<>>
  /\ loading' = IF mountedRef THEN FALSE ELSE loading
  /\ ran' = Completion("abort", c, latest, hist, message, lsRead, FALSE)
  /\ UNCHANGED localStorage

\* lines 293-309 and 315-317: the try block from the cache write on, with
\* the sanitized trace cleaned, and the finally block
PublishCleaned(c, latest, historyData, cleaned, nowSec, lsRead) ==
  /\ cycles' = Retire(c)
  /\ localStorage' = IF Len(cleaned) > 0
                       THEN saveLocalHistory(localStorage, cycles[c].dev, cleaned)
                       ELSE localStorage
  /\ latestLocation' = LatestAfter(latest, cleaned, cycles[c].dev, nowSec)
  /\ history' = cleaned
  /\ loading' = IF mountedRef THEN FALSE ELSE loading
  /\ ran' = Completion("publish", c, latest, historyData, "", lsRead,
                         Len(cleaned) > 0)
  /\ UNCHANGED error

\* lines 261-309 and 315-317: the rest of the try block once both fetches
\* resolved, to latest and historyData, and the finally block
Publish(c, latest, historyData, nowSec) ==
  PublishCleaned(c, latest, historyData,
                 cleanAndSortHistory(
                   CandidatePool(historyData, localStorage, cycles[c].dev), nowSec),
                 nowSec, ReadsCache(historyData))

\* The other fetch of cycle c resolves too, so that the fetches resolved to
\* latest and historyData: Promise.all resolves and loadData runs on after
\* the await, as a microtask no other handler comes before.  The clock is
\* read here (lines 269 and 68); it never runs backwards.
CompleteOk(c, latest, historyData, nowSec) ==
  /\ cycles[c].latest = "pending" \/ cycles[c].hist = "pending"
  /\ cycles[c].latest = "ok" \/ cycles[c].hist = "ok"
  /\ nowSec >= now
  /\ now' = nowSec
  /\ IF PoolThrows(historyData, localStorage, cycles[c].dev)
       THEN Catch(c, latest, historyData, TypeErrorMessage, ReadsCache(historyData))
       ELSE Publish(c, latest, historyData, nowSec)
  /\ UNCHANGED <<deviceId, phase, lsFault, sanVars, statVars>>

\* A pending fetch of cycle c rejects with message: Promise.all rejects at
\* once, whatever the state of the other fetch, and loadData runs its catch
\* block, as a microtask no other handler comes before.
CompleteFail(c, which, message) ==
  /\ cycles[c][which] = "pending"
  /\ Catch(c, Null, NotArray, message, FALSE)
  /\ UNCHANGED <<deviceId, phase, now, lsFault, sanVars, statVars>>

\* ------------------------------------------------------------------
\* The other handlers
\* ------------------------------------------------------------------
\* lines 780-784: the device id input
SetDeviceId(d) ==
  /\ phase = "mounted"
  /\ d # deviceId
  /\ deviceId' = d
  /\ latestLocation' = Null
  /\ history' = <<>>
  /\ ran' = Handler("other", 0, FALSE, FALSE)
  /\ UNCHANGED <<loading, error, phase, localStorage, cycles, now, lsFault, sanVars, statVars>>

\* lines 392-396: localStorage.removeItem(key), inside try/catch
RemoveItem(store, key) ==
  IF lsFault = "all"
    THEN store
    ELSE [k \in DOMAIN store |-> IF k = key THEN Absent ELSE store[k]]

\* lines 387-396 and 802-805: the Clear button
clearLocalData ==
  /\ phase = "mounted"
  /\ ~(loading /\ latestLocation = Null /\ history = <<>>)
  /\ latestLocation' = Null
  /\ history' = <<>>
  /\ error' = <<>>
  /\ localStorage' = RemoveItem(localStorage, localHistoryKey(deviceId))
  /\ ran' = Handler("clear", 0, FALSE, TRUE)
  /\ UNCHANGED <<deviceId, loading, phase, cycles, now, lsFault, sanVars, statVars>>

\* lines 411-414: the cleanup of the mount effect
Unmount ==
  /\ phase = "mounted"
  /\ phase' = "unmounted"
  /\ ran' = Handler("other", 0, FALSE, FALSE)
  /\ UNCHANGED <<deviceId, latestLocation, history, loading, error,
                 localStorage, cycles, now, lsFault, sanVars, statVars>>

Next ==
  \/ Mount
  \/ \E trigger \in {"timer", "key", "button"} : LoadData(trigger)
  \/ \E c \in 1..Len(cycles), which \in {"latest", "hist"} : FetchResolves(c, which)
  \/ \E c \in 1..Len(cycles), latest \in LatestResults, historyData \in HistoryResults,
        nowSec \in Clocks :
       CompleteOk(c, latest, historyData, nowSec)
  \/ \E c \in 1..Len(cycles), which \in {"latest", "hist"}, message \in FetchErrors :
       CompleteFail(c, which, message)
  \/ \E d \in DeviceInputs : SetDeviceId(d)
  \/ clearLocalData
  \/ Unmount

Spec == Init /\ [][Next]_vars

\* ------------------------------------------------------------------
\* The cache under failures of the storage
\* ------------------------------------------------------------------
\* an item whose text JSON.parse rejects, and one that parses to a value
\* that is no array
Corrupt == [kind |-> "corrupt", items |-> <<>>]
NotAnArray == [kind |-> "object", items |-> <<>>]

\* items an earlier session left for esp01 and for esp02
cOther == [lat |-> Num(3), lon |-> Num(0), ts |-> Num(T0 + 1)]
StoreItems == {StoredArray(<<cOrigin>>), Corrupt, NotAnArray}
OtherItems == {Absent, StoredArray(<<cOther>>)}

StoreInit ==
  /\ \E item \in StoreItems, other \in OtherItems :
       AppStart([k \in Keys |->
                   IF k = localHistoryKey("esp01") THEN item ELSE other])
  /\ now = NowLate
  /\ lsFault \in {"none", "setItem", "all"}
  /\ SanIdle
  /\ StatIdle

\* the handlers of the component, over these stores
StoreSpec == StoreInit /\ [][Next]_vars

\* ------------------------------------------------------------------
\* cleanAndSortHistory on its own
\* ------------------------------------------------------------------
Point(lat, lon, ts) == [lat |-> lat, lon |-> lon, ts |-> ts]

\* Elements of the arrays: three positions on one meridian at three valid
\* timestamps, with a non-numeric or a missing timestamp, and points with a
\* coordinate that is no number, a null latitude or a timestamp below MinTs.
SanPoints ==
  {Point(Num(lat), Num(0), ts) :
     lat \in {0, 2, 3}, ts \in {Num(T0), Num(T0 + 1), Num(T0 + 2), Str, Null}}
  \cup {Point(Str, Num(0), Num(T0)), Point(Num(0), Undef, Num(T0)),
        Point(Null, Num(0), Num(T0 + 1)), Point(Num(0), Num(0), Num(T0 - 1))}

SanInputs == UNION {[1..n -> SanPoints] : n \in 0..MaxLen}

\* clocks at which T0 + 2 is too far in the future, and is not
SanClocks == {NowLate, NowLate + 1}

SanInit ==
  /\ AppStart([k \in Keys |-> Absent])
  /\ now \in SanClocks
  /\ lsFault = "none"
  /\ StatIdle
  /\ sanIn \in SanInputs
  /\ sanOut = <<>>
  /\ sanTwice = <<>>
  /\ sanPc = "start"

\* cleanAndSortHistory(sanIn)
SanClean ==
  /\ sanPc = "start"
  /\ sanOut' = cleanAndSortHistory(sanIn, now)
  /\ sanPc' = "cleaned"
  /\ UNCHANGED <<appVars, now, lsFault, sanIn, sanTwice, statVars>>

\* cleanAndSortHistory of the array the first call returned
SanCleanAgain ==
  /\ sanPc = "cleaned"
  /\ sanTwice' = cleanAndSortHistory(sanOut, now)
  /\ sanPc' = "again"
  /\ UNCHANGED <<appVars, now, lsFault, sanIn, sanOut, statVars>>

SanNext == SanClean \/ SanCleanAgain

SanSpec == SanInit /\ [][SanNext]_vars

\* ------------------------------------------------------------------
\* The statistics of a render: averageSpeed and trackingDuration
\* ------------------------------------------------------------------
\* Speeds are counted in units of 1 / SpeedScale m/s, so that a distance in
\* metres over a time in units of TsUnit seconds is a whole number.
SpeedScale == 360

\* lines 498-512 with a segment that is skipped counted as a speed of 0
SegmentSpeedZero(trace, i) ==
  IF i = 1 \/ ~Truthy(trace[i].ts) \/ ~Truthy(trace[i - 1].ts)
    THEN Num(0)
    ELSE LET dt == trace[i].ts.v - trace[i - 1].ts.v
         IN  IF dt <= 0
               THEN Num(0)
               ELSE Num((earthKm(trace[i - 1].lat.v, trace[i - 1].lon.v,
                                 trace[i].lat.v, trace[i].lon.v) * SpeedScale)
                          \div (dt * TsUnit))

\* lines 498-512: the speed of the segment that ends at element i (the
\* first element is i = 1), null when the segment is skipped; earthKm in
\* thousandths of a kilometre is the distance in metres
SegmentSpeed(trace, i) ==
  IF i = 1 \/ ~Truthy(trace[i].ts) \/ ~Truthy(trace[i - 1].ts)
    THEN Null
    ELSE LET dt == trace[i].ts.v - trace[i - 1].ts.v
         IN  IF dt <= 0
               THEN Null
               ELSE Num((earthKm(trace[i - 1].lat.v, trace[i - 1].lon.v,
                                 trace[i].lat.v, trace[i].lon.v) * SpeedScale)
                          \div (dt * TsUnit))

\* line 516: speeds.reduce((a, b) => a + b, 0)
RECURSIVE SumSpeeds(_)
SumSpeeds(speeds) ==
  IF speeds = <<>> THEN 0 ELSE speeds[1].v + SumSpeeds(Tail(speeds))

\* lines 492-519
averageSpeed(latest, trace) ==
  IF latest = Null \/ latest.speed = Null
    THEN Null
    ELSE IF Len(trace) < 2
      THEN latest.speed
      ELSE LET speeds == SelectSeq([i \in 1..Len(trace) |-> SegmentSpeed(trace, i)],
                                   LAMBDA sp : sp # Null)
           IN  IF Len(speeds) = 0
                 THEN latest.speed
                 ELSE Num(SumSpeeds(speeds) \div Len(speeds))

\* lines 522-528
trackingDuration(trace) ==
  IF Len(trace) < 2
    THEN Null
    ELSE LET first == trace[1].ts
             last == trace[Len(trace)].ts
         IN  IF ~Truthy(first) \/ ~Truthy(last) THEN Null ELSE JsSub(last, first)

\* points of a trace: coerced coordinates on one meridian and a timestamp
\* the filter keeps, a number or NaN
StatPoints ==
  {Point(Num(lat), Num(0), ts) :
     lat \in {0, 1, 3}, ts \in {Num(T0), Num(T0 + 1), Num(T0 + 2), NaN}}

\* the clock of the cycle that published the trace
StatClock == NowLate + 1

\* The traces a cycle can publish: the arrays of up to MaxLen points that
\* cleanAndSortHistory returns, which are the arrays it leaves as they are.
StatTraces ==
  {trace \in UNION {[1..n -> StatPoints] : n \in 0..MaxLen} :
     cleanAndSortHistory(trace, StatClock) = trace}

\* a latest report with the given speed (lines 262-270 and 297-305)
StatFix(speed) ==
  [device_id |-> "esp01", lat |-> Num(0), lon |-> Num(0), speed |-> speed,
   battery |-> Null, sos |-> FALSE, timestamp |-> Num(T0)]

\* latestLocation: null, or a report whose speed is null, a number or NaN
StatLatest == {Null} \cup {StatFix(speed) : speed \in {Null, Num(0), Num(5 * SpeedScale), NaN}}

StatInit ==
  /\ deviceId = "esp01"
  /\ latestLocation \in StatLatest
  /\ history \in StatTraces
  /\ loading = FALSE
  /\ error = <<>>
  /\ phase = "mounted"
  /\ localStorage = [k \in Keys |-> Absent]
  /\ cycles = <<>>
  /\ ran = Handler("other", 0, FALSE, FALSE)
  /\ now = StatClock
  /\ lsFault = "none"
  /\ SanIdle
  /\ statPc = "start"
  /\ statSpeed = Null
  /\ statDuration = Null

\* a render: the useMemo values are computed from latestLocation and history
Render ==
  /\ statPc = "start"
  /\ statSpeed' = averageSpeed(latestLocation, history)
  /\ statDuration' = trackingDuration(history)
  /\ statPc' = "rendered"
  /\ UNCHANGED <<appVars, now, lsFault, sanVars>>

StatNext == Render

StatSpec == StatInit /\ [][StatNext]_vars

\* ------------------------------------------------------------------
\* Properties
\* ------------------------------------------------------------------
\* the last handler was the completion of a cycle
Completed == ran.op \in {"publish", "abort"}

\* C1: a completion of a cycle that arrives after a cycle started later has
\* completed changes neither the in-memory latest nor the trace, so that the
\* state stays the one produced by the cycle started last.
C1_StaleCompletionChangesNothing ==
  [][(Completed' /\ ran'.stale) => UNCHANGED <<latestLocation, history>>]_vars

\* for C2: the parts of the error message
Contains(parts, message) == \E i \in 1..Len(parts) : parts[i] = message

\* C2: when a fetch of a cycle rejects or an exception is raised before the
\* trace is published, the in-memory latest is null and the trace empty
\* afterwards, the error contains the failure's message, and the cycle
\* changes no cache entry: neither its start nor its abort writes localStorage.
C2_AbortClearsAndKeepsCache ==
  [][/\ ran'.op = "abort" =>
          /\ latestLocation' = Null
          /\ history' = <<>>
          /\ ran'.message # ""
          /\ Contains(error', ran'.message)
          /\ localStorage' = localStorage
          /\ ~ran'.lsWrite
     /\ ran'.op = "loadData" => localStorage' = localStorage /\ ~ran'.lsWrite]_vars

\* a cycle was aborted by a rejected fetch while the cache held an entry
C2_Witness ==
  /\ ran.op = "abort"
  /\ ran.message = "Network Error"
  /\ localStorage[localHistoryKey(ran.dev)].kind = "array"

\* C3: loadData with a device identifier that is empty after trimming issues
\* no fetch, neither reads nor writes the cache, sets an error message and
\* leaves latest, the trace and the loading flag as they were.
C3_BlankDeviceFailsAtOnce ==
  [][(ran'.op = "loadData" /\ Trim(deviceId') = "") =>
       /\ ran'.fetches = 0
       /\ cycles' = cycles
       /\ ~ran'.lsRead
       /\ ~ran'.lsWrite
       /\ error' # <<>>
       /\ UNCHANGED <<latestLocation, history, loading, localStorage>>]_vars

\* loadData has run with a blank device identifier while a cycle was in flight
C3_Witness ==
  /\ ran.op = "loadData"
  /\ Trim(deviceId) = ""
  /\ error = <<"Please enter a device ID">>
  /\ loading
  /\ cycles # <<>>

\* C4: a cycle that succeeds publishes sanitize(normalize(remote history))
\* when the remote history is a non-empty list and sanitize(cached entry of
\* its device) otherwise, and a cycle reads the cache in the second case only.
C4_PoolIsRemoteElseCache ==
  [][/\ ran'.op = "publish" =>
          IF ran'.hist.isArray /\ ran'.hist.items # <<>>
            THEN /\ history' = cleanAndSortHistory(
                                 NormalizeAll(ran'.hist.items), now')
                 /\ ~ran'.lsRead
            ELSE /\ history' = cleanAndSortHistory(
                                 loadLocalHistory(localStorage, ran'.dev), now')
                 /\ ran'.lsRead
     /\ (Completed' /\ ran'.lsRead) => ~(ran'.hist.isArray /\ ran'.hist.items # <<>>)]_vars

\* a cycle got an empty remote history, fell back to the cached entry and
\* published its sanitized points
C4_Witness ==
  /\ ran.op = "publish"
  /\ ran.hist = Array(<<>>)
  /\ ran.lsRead
  /\ history = <<[lat |-> Num(0), lon |-> Num(0), ts |-> Num(T0)]>>

\* C5: after a cycle that succeeds with a non-empty sanitized trace the cache
\* entry of its device equals the trace; with an empty trace the cycle writes
\* nothing and the entry keeps its value.
C5_CacheEqualsTrace ==
  [][ran'.op = "publish" =>
       IF history' # <<>>
         THEN loadLocalHistory(localStorage', ran'.dev) = history'
         ELSE localStorage' = localStorage /\ ~ran'.lsWrite]_vars

\* the output of the first call is there
SanDone == sanPc # "start"

\* C6: no two consecutive points (prev, p) of the output of
\* cleanAndSortHistory are more than jumpKmThreshold apart with
\* p.ts - prev.ts < 60.
C6_SpikeExclusion ==
  SanDone =>
    \A i \in 1..(Len(sanOut) - 1) :
      ~(/\ earthKm(sanOut[i].lat.v, sanOut[i].lon.v,
                   sanOut[i + 1].lat.v, sanOut[i + 1].lon.v) > jumpKmThreshold * KmScale
        /\ JsLt(JsSub(sanOut[i + 1].ts, sanOut[i].ts), Num(SpikeDt)))

\* the timestamp and the coordinates of every input point pass the filters
AllPlausible ==
  \A i \in 1..Len(sanIn) :
    /\ sanIn[i].lat.k = "num"
    /\ sanIn[i].lon.k = "num"
    /\ sanIn[i].ts.k = "num"
    /\ ValidTs(sanIn[i], now)

\* a spike was dropped from three plausible points and two were kept
C6_Witness ==
  /\ SanDone
  /\ AllPlausible
  /\ Len(sanIn) = 3
  /\ Len(sanOut) = 2

\* a <= b of two numbers: false when either is NaN
JsLe(a, b) == a.k = "num" /\ b.k = "num" /\ a.v <= b.v

\* C7: the output of cleanAndSortHistory is non-decreasing by ts:
\* ts[i] <= ts[i + 1] for every valid index i.
C7_MonotonicTs ==
  SanDone => \A i \in 1..(Len(sanOut) - 1) : JsLe(sanOut[i].ts, sanOut[i + 1].ts)

\* C8: every point of the output of cleanAndSortHistory has a numeric ts with
\* ts >= minYear * 365 * 86400 and ts <= now + maxFutureSec, whatever the raw
\* ts field held.
C8_TsWithinBounds ==
  SanDone =>
    \A i \in 1..Len(sanOut) :
      /\ sanOut[i].ts.k = "num"
      /\ sanOut[i].ts.v >= minYear * 365 * 24 * (3600 \div TsUnit)
      /\ sanOut[i].ts.v <= now + maxFutureSec

\* C9: cleanAndSortHistory(cleanAndSortHistory(x)) is cleanAndSortHistory(x),
\* element for element and in the same order, at one clock value.
C9_Idempotent == sanPc = "again" => sanTwice = sanOut

\* the second call ran on an output that dropped a point of the input and
\* kept two
C9_Witness ==
  /\ sanPc = "again"
  /\ Len(sanOut) >= 2
  /\ Len(sanOut) < Len(sanIn)
  /\ sanTwice = sanOut

AllFinite(points) ==
  \A i \in 1..Len(points) : points[i].lat.k = "num" /\ points[i].lon.k = "num"

\* C10: every point of the in-memory trace has finite lat and lon, and so
\* has every point of a cache entry written by a cycle.
C10_FiniteCoordinates ==
  /\ AllFinite(history)
  /\ (ran.op = "publish" /\ ran.lsWrite) =>
       AllFinite(localStorage[localHistoryKey(ran.dev)].items)

\* a cycle read cached points with a null latitude and a missing longitude
\* and published and wrote the one it kept
C10_Witness ==
  /\ ran.op = "publish"
  /\ ran.lsRead
  /\ ran.lsWrite
  /\ history = <<[lat |-> Num(0), lon |-> Num(0), ts |-> Num(T0 + 1)]>>

\* C11: a cycle whose fetches complete after the component has been
\* unmounted, with success or with a failure, updates none of the in-memory
\* latest, trace, error and loading flag.
C11_NoUpdateAfterUnmount ==
  [][(Completed' /\ phase = "unmounted") =>
       UNCHANGED <<latestLocation, history, error, loading>>]_vars

\* C12: at the end of a cycle that succeeds, latest is the normalized fix
\* when the remote source supplied one, whatever the trace; else, with a
\* non-empty trace, the report synthesized from the last element of the
\* trace (its lat and lon, timestamp = its ts, the device id of the cycle,
\* speed null, battery null, sos false); else null.
C12_LatestAtEndOfCycle ==
  ran.op = "publish" =>
    IF IsObject(ran.latest)
      THEN latestLocation = NormalizeLatest(ran.latest, ran.dev, now)
      ELSE IF history # <<>>
        THEN latestLocation =
               [device_id |-> ran.dev,
                lat |-> history[Len(history)].lat,
                lon |-> history[Len(history)].lon,
                speed |-> Null, battery |-> Null, sos |-> FALSE,
                timestamp |-> history[Len(history)].ts]
        ELSE latestLocation = Null

\* a cycle without a remote fix published a trace of two points and the
\* report synthesized from the second
C12_Witness ==
  /\ ran.op = "publish"
  /\ ran.latest = Null
  /\ Len(history) = 2
  /\ latestLocation # Null
  /\ latestLocation.lat = Num(1)
  /\ latestLocation.timestamp = Num(T0 + 1)
  /\ latestLocation.speed = Null

\* for C13: the cache entry a completion reads cannot be read as an array
Unreadable(store, dev) ==
  lsFault = "all" \/ store[localHistoryKey(dev)].kind \in {"corrupt", "object"}

\* C13: a failure of the storage never aborts a cycle.  When the cache write
\* throws, the cycle publishes the sanitized trace and latest and sets no
\* error; when the cache read throws or the entry does not parse or is no
\* array, the cycle goes on with an empty pool and sets no error; and a cycle
\* whose fetches both resolved aborts only on a null element of the array it
\* maps.
C13_PersistenceNeverAborts ==
  [][/\ (ran'.op = "publish" /\ ran'.lsWrite /\ lsFault # "none") =>
          /\ history' # <<>>
          /\ history' = cleanAndSortHistory(
                          IF UsesRemote(ran'.hist)
                            THEN NormalizeAll(ran'.hist.items)
                            ELSE loadLocalHistory(localStorage, ran'.dev), now')
          /\ latestLocation' # Null
          /\ error' = error
          /\ localStorage' = localStorage
     /\ (Completed' /\ ran'.lsRead /\ Unreadable(localStorage, ran'.dev)) =>
          /\ ran'.op = "publish"
          /\ history' = <<>>
          /\ error' = error
     /\ (ran'.op = "abort" /\ ran'.message \notin FetchErrors) =>
          IF UsesRemote(ran'.hist)
            THEN \E i \in 1..Len(ran'.hist.items) : ran'.hist.items[i] = Null
            ELSE \E i \in 1..Len(loadLocalHistory(localStorage, ran'.dev)) :
                   loadLocalHistory(localStorage, ran'.dev)[i] = Null]_vars

\* while setItem throws, a cycle published a trace it could not write, over
\* an entry that does not parse
C13_Witness ==
  /\ ran.op = "publish"
  /\ ran.lsWrite
  /\ lsFault = "setItem"
  /\ history # <<>>
  /\ error = <<>>
  /\ localStorage[localHistoryKey(ran.dev)] = Corrupt

\* C14: clearLocalData deletes the cache entry of the current device
\* identifier and sets latest to null, the trace to empty and error to null;
\* and the entry stays absent until a cycle started after the reset succeeds
\* with a non-empty trace: a cycle that completes in the step right after
\* the reset was started before it, and leaves the entry absent.
C14_ResetKeepsEntryAbsent ==
  [][/\ ran'.op = "clear" =>
          /\ GetItem(localStorage', localHistoryKey(deviceId)) = Absent
          /\ latestLocation' = Null
          /\ history' = <<>>
          /\ error' = <<>>
     /\ (ran.op = "clear" /\ Completed') =>
          GetItem(localStorage', localHistoryKey(deviceId)) = Absent]_vars

\* C15: for two distinct device identifiers a and b, the keys differ, a save
\* by a cycle of a and a reset while a is selected leave the entry of b as it
\* was, and the points a cycle of b loads are those of the entry of b.
C15_KeysDoNotCollide ==
  [][\A a \in Devices, b \in Devices :
       a # b =>
         /\ localHistoryKey(a) # localHistoryKey(b)
         /\ ((ran'.op = "publish" /\ ran'.dev = a) \/ (ran'.op = "clear" /\ deviceId = a)) =>
              GetItem(localStorage', localHistoryKey(b))
                = GetItem(localStorage, localHistoryKey(b))
         /\ (ran'.op = "publish" /\ ran'.lsRead /\ ran'.dev = b) =>
              history' = cleanAndSortHistory(
                           IF lsFault # "all"
                                /\ GetItem(localStorage, localHistoryKey(b)).kind = "array"
                             THEN GetItem(localStorage, localHistoryKey(b)).items
                             ELSE <<>>, now')]_vars

\* a cycle of esp02 wrote its entry while esp01 held an entry of an earlier
\* session, which is still there
C15_Witness ==
  /\ ran.op = "publish"
  /\ ran.lsWrite
  /\ ran.dev = "esp02"
  /\ lsFault = "none"
  /\ localStorage[localHistoryKey("esp02")].kind = "array"
  /\ localStorage[localHistoryKey("esp02")].items # <<>>
  /\ localStorage[localHistoryKey("esp01")] = StoredArray(<<cOrigin>>)
  /\ localStorage[localHistoryKey("esp02")] # StoredArray(<<cOrigin>>)

\* for C16: the elements i of the trace whose segment counts: both
\* timestamps are there and dt > 0
ValidSegments ==
  {i \in 2..Len(history) :
     /\ history[i].ts.k = "num"
     /\ history[i - 1].ts.k = "num"
     /\ history[i].ts.v - history[i - 1].ts.v > 0}

\* distanceMeters / dt of the segment that ends at element i
MetresPerSecond(i) ==
  (earthKm(history[i - 1].lat.v, history[i - 1].lon.v,
           history[i].lat.v, history[i].lon.v) * SpeedScale)
    \div ((history[i].ts.v - history[i - 1].ts.v) * TsUnit)

RECURSIVE SumOver(_)
SumOver(set) ==
  IF set = {}
    THEN 0
    ELSE LET i == CHOOSE j \in set : TRUE
         IN  MetresPerSecond(i) + SumOver(set \ {i})

\* C16: averageSpeed is null when there is no latest or latest.speed is
\* null; latest.speed when the trace has fewer than 2 points; otherwise the
\* mean of distanceMeters / dt over the consecutive pairs whose timestamps
\* are both present with dt > 0, and latest.speed when there is no such pair.
C16_AverageSpeedCases ==
  statPc = "rendered" =>
    IF latestLocation = Null
      THEN statSpeed = Null
      ELSE IF latestLocation.speed = Null
        THEN statSpeed = Null
        ELSE IF Len(history) < 2 \/ ValidSegments = {}
          THEN statSpeed = latestLocation.speed
          ELSE statSpeed = Num(SumOver(ValidSegments) \div Cardinality(ValidSegments))

\* a trace of three points with one segment that counts and one that does
\* not gave a mean that is not latest.speed
C16_Witness ==
  /\ statPc = "rendered"
  /\ Len(history) = 3
  /\ Cardinality(ValidSegments) = 1
  /\ latestLocation # Null
  /\ latestLocation.speed = Num(0)
  /\ statSpeed # Num(0)
  /\ statSpeed # Null

\* C17: trackingDuration is last.ts - first.ts when the trace has at least 2
\* points and its first and last timestamps are truthy, and null otherwise;
\* and for every trace of at least 2 points that a cycle can publish it is a
\* number that is not negative, never null.
C17_TrackingDuration ==
  statPc = "rendered" =>
    /\ statDuration =
         IF /\ Len(history) >= 2
            /\ history[1].ts.k = "num" /\ history[1].ts.v # 0
            /\ history[Len(history)].ts.k = "num" /\ history[Len(history)].ts.v # 0
           THEN Num(history[Len(history)].ts.v - history[1].ts.v)
           ELSE Null
    /\ Len(history) >= 2 => (statDuration.k = "num" /\ statDuration.v >= 0)

\* for C18: the sorted, timestamp-valid sequence the walk runs over
SortedValid ==
  SortByTs(SelectSeq(SelectSeq(CoerceAll(sanIn), FiniteCoords),
                     LAMBDA p : ValidTs(p, now)))

\* distanceKm(prev, p) > jumpKmThreshold and p.ts - prev.ts < 60
SpikePair(prev, p) ==
  /\ earthKm(prev.lat.v, prev.lon.v, p.lat.v, p.lon.v) > jumpKmThreshold * KmScale
  /\ p.ts.k = "num"
  /\ prev.ts.k = "num"
  /\ p.ts.v - prev.ts.v < SpikeDt

\* the last index accepted before candidate i
LastAcceptedBefore(acc, i) ==
  CHOOSE j \in acc : j < i /\ \A m \in acc : m < i => m <= j

\* acc is the set of accepted indexes of a greedy walk over sorted
GreedyAccepted(sorted, acc) ==
  /\ Len(sorted) > 0 => 1 \in acc
  /\ \A i \in 2..Len(sorted) :
       i \in acc <=> ~SpikePair(sorted[LastAcceptedBefore(acc, i)], sorted[i])

\* the elements of sorted at the indexes of acc, in order
Accepted(sorted, acc) ==
  [n \in 1..Cardinality(acc) |->
     sorted[CHOOSE j \in acc : Cardinality({m \in acc : m <= j}) = n]]

\* out is sorted restricted to the indexes a greedy walk accepts
IsGreedyWalk(sorted, out) ==
  \E acc \in SUBSET (1..Len(sorted)) :
    /\ GreedyAccepted(sorted, acc)
    /\ out = Accepted(sorted, acc)

\* C18: the output of cleanAndSortHistory is the sorted, timestamp-valid
\* sequence restricted to the indexes a greedy walk accepts: the first, and
\* each later candidate if and only if it is no spike against the last
\* accepted point; a rejected point is in no later comparison.
C18_GreedyWalk == SanDone => IsGreedyWalk(SortedValid, sanOut)

\* of three valid points the second and the third were rejected against the
\* first, although the third is no spike against the second
C18_Witness ==
  /\ SanDone
  /\ Len(SortedValid) = 3
  /\ Len(sanOut) = 1
  /\ ~SpikePair(SortedValid[2], SortedValid[3])
  /\ SpikePair(SortedValid[1], SortedValid[3])

\* C19: a cycle issues both fetches when it starts; the step in which the
\* first of them resolves updates none of latest, trace, cache, error and
\* loading; a cycle publishes only in the step in which its second fetch
\* resolves; and when a fetch rejects, whatever the other one did, latest is
\* null, the trace empty and the cache neither read nor written.
C19_FanOutFanIn ==
  [][/\ Len(cycles') > Len(cycles) =>
          /\ ran'.op = "loadData"
          /\ ran'.fetches = 2
          /\ cycles'[Len(cycles')].latest = "pending"
          /\ cycles'[Len(cycles')].hist = "pending"
     /\ (Len(cycles') = Len(cycles) /\ cycles' # cycles) =>
          UNCHANGED <<latestLocation, history, localStorage, error, loading>>
     /\ ran'.op = "publish" =>
          /\ Len(cycles') = Len(cycles) - 1
          /\ \E c \in 1..Len(cycles) :
               /\ cycles[c].latest = "ok" \/ cycles[c].hist = "ok"
               /\ \A i \in 1..Len(cycles') :
                    cycles'[i].dev = cycles[IF i < c THEN i ELSE i + 1].dev
     /\ (ran'.op = "abort" /\ ran'.message \in FetchErrors) =>
          /\ latestLocation' = Null
          /\ history' = <<>>
          /\ localStorage' = localStorage
          /\ ~ran'.lsRead
          /\ ~ran'.lsWrite]_vars

\* the fetch of the latest fix of a cycle has resolved and the cycle waits
\* for the history: nothing is applied yet
C19_Witness ==
  /\ Len(cycles) = 1
  /\ cycles[1].latest = "ok"
  /\ cycles[1].hist = "pending"
  /\ latestLocation = Null
  /\ history = <<>>
  /\ loading
  /\ ran.op = "other"

\* C20: latest and the trace never hold data fetched for a device identifier
\* that is not the selected one: a cycle that completes while another device
\* identifier is selected leaves latest null and the trace empty.
C20_NoDataOfOtherDevice ==
  [][(Completed' /\ ran'.dev # deviceId') =>
       (latestLocation' = Null /\ history' = <<>>)]_vars

\* ------------------------------------------------------------------
\* C21: the loading flag is true in every state in which at least one cycle
\* is in flight (fetches issued, completion not yet handled) while the
\* component is mounted, whatever the interleaving of the cycles the timer,
\* the keyboard and the buttons start.
C21_LoadingWhileInFlight ==
  (phase = "mounted" /\ Len(cycles) > 0) => loading

\* ------------------------------------------------------------------
\* for C22: the cache entry of the device of the cycle that completes in
\* this step, before and after the step
EntryBefore == GetItem(localStorage, localHistoryKey(ran'.dev))
EntryAfter == GetItem(localStorage', localHistoryKey(ran'.dev))

\* the stored array is a sanitized trace at the clock nowSec: sanitizing what
\* it parses to yields the same array again
IsSanitizedEntry(entry, nowSec) ==
  /\ entry.kind = "array"
  /\ ~Throws(entry.items)
  /\ StoredArray(cleanAndSortHistory(entry.items, nowSec)) = entry

\* C22: with a clock that never runs backwards, every cache entry a cycle
\* writes is itself a sanitized trace; so a successful cycle for the same
\* device that reads the entry, its remote history being empty, publishes a
\* trace equal to the entry and leaves the entry unchanged (here: the cycle
\* that completes right after the one that wrote the entry).
C22_CacheRoundTrip ==
  [][/\ (ran'.op = "publish" /\ ran'.lsWrite) =>
          IsSanitizedEntry(EntryAfter, now')
     /\ (/\ ran.op = "publish" /\ ran.lsWrite
         /\ ran'.op = "publish" /\ ran'.lsRead
         /\ ran'.dev = ran.dev) =>
          /\ StoredArray(history') = EntryBefore
          /\ EntryAfter = EntryBefore]_vars

\* C22 for the entries whose timestamps are all numbers
NumericTs(points) == \A i \in 1..Len(points) : points[i].ts.k = "num"

C22_NumericRoundTrip ==
  [][/\ (ran'.op = "publish" /\ ran'.lsWrite /\ NumericTs(history')) =>
          IsSanitizedEntry(EntryAfter, now')
     /\ (/\ ran'.op = "publish" /\ ran'.lsRead
         /\ IsSanitizedEntry(EntryBefore, now)
         /\ Len(EntryBefore.items) > 0) =>
          /\ StoredArray(history') = EntryBefore
          /\ EntryAfter = EntryBefore]_vars

\* ------------------------------------------------------------------
\* Cycles whose fetches settle
\* ------------------------------------------------------------------
\* what fetchHistory resolves to here: no history, a point whose ts is no
\* number, two points out of order, and an array with a null element, which
\* raises the TypeError
LiveHistory ==
  {Array(<<>>), Array(<<rIsoTs>>), Array(<<rNear, rOrigin>>), Array(<<rOrigin, Null>>)}

\* the page opens with an empty localStorage
LiveInit ==
  /\ AppStart([k \in Keys |-> Absent])
  /\ now = NowLate
  /\ lsFault = "none"
  /\ SanIdle
  /\ StatIdle

\* A fetch of the cycle at position c returns or fails: the steps loadData
\* takes after the await of lines 256-259.
Settles(c) ==
  /\ c <= Len(cycles)
  /\ \/ \E which \in {"latest", "hist"} : FetchResolves(c, which)
     \/ \E which \in {"latest", "hist"}, message \in FetchErrors :
          CompleteFail(c, which, message)
     \/ \E latest \in LatestResults, historyData \in LiveHistory, nowSec \in Clocks :
          CompleteOk(c, latest, historyData, nowSec)

\* the handlers of the component: those of Next, with the results of
\* fetchHistory taken from LiveHistory
LiveNext ==
  \/ Mount
  \/ \E trigger \in {"timer", "key", "button"} : LoadData(trigger)
  \/ \E c \in 1..MaxCycles : Settles(c)
  \/ \E d \in DeviceInputs : SetDeviceId(d)
  \/ clearLocalData
  \/ Unmount

\* each of the two fetches of every cycle eventually returns or fails
FetchesSettle == \A c \in 1..MaxCycles : WF_vars(Settles(c))

LiveSpec == LiveInit /\ [][LiveNext]_vars /\ FetchesSettle

\* the last handler was the completion of the cycle started first among
\* those in flight, and loading is false
OldestDone == Completed /\ ran.pos = 1 /\ ~loading

\* C23: every cycle that starts its fetches while the component stays
\* mounted eventually sets loading back to false, when its fetches settle.
\* Every completion while mounted leaves loading false, whether the cycle
\* published, a fetch failed or an exception was raised; whenever cycles are
\* in flight after a handler that completed none, the one started first
\* eventually completes, unless the component is unmounted; and the state
\* after a completion that left cycles in flight is no resting place.  So
\* every cycle completes, at the latest once the cycles before it have.
C23_LoadingEventuallyFalse ==
  /\ [][(Completed' /\ phase = "mounted") => ~loading']_vars
  /\ (Len(cycles) > 0 /\ ~Completed) ~> (phase = "unmounted" \/ OldestDone)
  /\ []<>(Len(cycles) = 0 \/ ~Completed \/ phase = "unmounted")

\* a cycle completed by the exception of a null element while another cycle
\* is still in flight, and loading is false
C23_Witness ==
  /\ phase = "mounted"
  /\ ran.op = "abort"
  /\ ran.message = TypeErrorMessage
  /\ ran.pos = 1
  /\ Len(cycles) > 0
  /\ ~loading

====
